---- MODULE Spec2Model ----
(***************************************************************************)
(* Training orchestration of train_backup.py (main, train_one_epoch,      *)
(* valid_one_epoch) and the checkpoint store of checkpoint.py             *)
(* (default_checkpoint, save_checkpoint, load_checkpoint).                *)
(*                                                                         *)
(* Numbers.  Python floats are modelled as exact rationals <<n, d>> with  *)
(* d > 0 in lowest terms.  Per-batch sentence accuracy and word error     *)
(* rate are given in tenths, so an epoch's composite score                *)
(* 0.9*acc + 0.1*(1 - wer) is a rational number of hundredths.            *)
(* The external model, criterion and metric functions are inputs: every   *)
(* batch draws its tensors, loss, gradient norm and metric values from    *)
(* the batch source of the configured dataset.                            *)
(*                                                                         *)
(* train_backup.py imports init_tensorboard and write_tensorboard from    *)
(* checkpoint, where both are commented out; main is modelled as it runs  *)
(* once these two names resolve to telemetry calls without effect on the  *)
(* training state.                                                        *)
(***************************************************************************)
EXTENDS Integers, Sequences, FiniteSets, TLC

\* ------------------------------------------------------------------ bounds
MaxEpochs == 2       \* options.num_epochs of an ordinary configuration
MaxBatches == 2      \* len(data_loader) of an ordinary configuration
MaxRuns == 2         \* processes started one after the other
ScoreEpochs == 5     \* options.num_epochs of the long single-batch configuration
MaxCounter == 3      \* largest epoch counter a resumed process may reach

\* ------------------------------------------------------- program constants
PadId == 2           \* data_loader.dataset.token_to_id[PAD]
BestInit == 0        \* best_sentence_acc = 0.0
AccWeight == 9       \* 0.9 * validation_epoch_sentence_accuracy   (tenths)
WerWeight == 1       \* 0.1 * (1 - validation_epoch_wer)           (tenths)
One == 10            \* the 1 of (1 - wer), in tenths

\* ------------------------------------------------------------- arithmetic
RECURSIVE Gcd(_, _)
Gcd(a, b) == IF b = 0 THEN a ELSE Gcd(b, a % b)

Abs(x) == IF x < 0 THEN -x ELSE x

\* the rational n/d (d > 0) in lowest terms
Rat(n, d) ==
    LET g == Gcd(Abs(n), d) IN
    IF g = 0 THEN <<0, 1>> ELSE <<n \div g, d \div g>>

\* a < b on rationals
Less(a, b) == a[1] * b[2] < b[1] * a[2]

RECURSIVE Sum(_)
Sum(s) == IF s = <<>> THEN 0 ELSE Head(s) + Sum(Tail(s))

\* np.mean of a non-empty list
Mean(s) == Rat(Sum(s), Len(s))

\* the largest element of a non-empty sequence of rationals
RECURSIVE MaxRat(_)
MaxRat(s) ==
    IF Len(s) = 1 THEN s[1]
    ELSE LET m == MaxRat(Tail(s)) IN IF Less(s[1], m) THEN m ELSE s[1]

\* ------------------------------------------------------------ tensor steps
\* a batch loop that hands the loader's tensor to the model as it is
PadFillNothing(t) == t

\* expected[expected == -1] = token_to_id[PAD]
PadFill(t) == [i \in DOMAIN t |-> [j \in DOMAIN t[i] |-> IF t[i][j] = -1 THEN PadId ELSE t[i][j]]]

\* expected[expected == token_to_id[PAD]] = -1
PadRestore(t) == [i \in DOMAIN t |-> [j \in DOMAIN t[i] |-> IF t[i][j] = PadId THEN -1 ELSE t[i][j]]]

\* expected[:, 1:]
Shift(t) == [i \in DOMAIN t |-> Tail(t[i])]

\* a count of matches against the reference with its padding still filled
CountCorrectFilled(seq, exp) ==
    Sum([i \in DOMAIN seq |->
            Cardinality({j \in DOMAIN seq[i] : seq[i][j] = Shift(PadFill(exp))[i][j]})])

\* torch.sum(sequence == expected[:, 1:]).item()
CountCorrect(seq, exp) ==
    Sum([i \in DOMAIN seq |->
            Cardinality({j \in DOMAIN seq[i] : seq[i][j] = Shift(exp)[i][j]})])

\* torch.sum(expected[:, 1:] != -1).item()
CountTotal(exp) ==
    Sum([i \in DOMAIN exp |->
            Cardinality({j \in DOMAIN Shift(exp)[i] : Shift(exp)[i][j] # -1})])

\* ------------------------------------------------------------ batch source
\* One batch of a data loader together with what the external model,
\* criterion and metric functions return on it: the encoded truth (rows of
\* ids, -1 for padding, id 0 the start marker), the arg-max prediction, the
\* loss, the clipped gradient norm, and the batch's word error rate and
\* sentence accuracy in tenths.
Batch(truth, sequence, loss, gn, w, sa) ==
    [truth |-> truth, sequence |-> sequence, loss |-> loss, grad_norm |-> gn,
     wer |-> w, sent_acc |-> sa]

\* the batches a train loader can yield: batches of one and of two
\* examples, one of them all padding
TrainBatches(dataset) ==
    IF dataset = "scores"
    THEN {Batch(<< <<0, 3, -1>> >>, << <<3, 2>> >>, 2, 1, 0, 10)}
    ELSE IF dataset = "short"
    THEN {Batch(<< <<0, 3, -1>> >>, << <<3, 2>> >>, 2, 1, 0, 10),
          Batch(<< <<0, -1, -1>> >>, << <<3, 3>> >>, 1, 1, 10, 0)}
    ELSE {Batch(<< <<0, 3, -1>> >>, << <<3, 2>> >>, 2, 1, 0, 10),
          Batch(<< <<0, 3, 4>>, <<0, 4, -1>> >>, << <<3, 3>>, <<3, 2>> >>, 4, 3, 5, 5),
          Batch(<< <<0, 3, 4>>, <<0, 4, -1>> >>, << <<3, 4>>, <<4, 2>> >>, 3, 2, 0, 10),
          Batch(<< <<0, -1, -1>> >>, << <<3, 3>> >>, 1, 1, 10, 0)}

\* the batches a validation loader can yield; composite scores 0, 0.4, 0.5,
\* 0.6 and 0.7 for a pass of one batch
ValidBatches(dataset) ==
    IF dataset = "scores"
    THEN {Batch(<< <<0, 3, -1>> >>, << <<4, 2>> >>, 6, 0, 6, 4),
          Batch(<< <<0, 3, -1>> >>, << <<3, 2>> >>, 5, 0, 5, 5),
          Batch(<< <<0, 3, 4>> >>, << <<3, 3>> >>, 4, 0, 4, 6),
          Batch(<< <<0, 3, 4>> >>, << <<3, 4>> >>, 3, 0, 3, 7)}
    ELSE {Batch(<< <<0, 3, -1>> >>, << <<4, 2>> >>, 9, 0, 10, 0),
          Batch(<< <<0, 3, -1>> >>, << <<3, 2>> >>, 5, 0, 6, 4),
          Batch(<< <<0, 3, 4>> >>, << <<3, 4>> >>, 3, 0, 3, 7),
          Batch(<< <<0, -1, -1>> >>, << <<3, 3>> >>, 1, 0, 10, 0)}

\* word_error_rate and sentence_acc return the mean over the examples of
\* the batch: the per-example values of a batch add up to value * size
ExampleTotal(value, size) == value * size

\* ------------------------------------------------------------ configuration
\* options.scheduler.scheduler; "" stands for a name main does not recognise
Schedulers == {"CustomCosine", "ReduceLROnPlateau", "StepLR", "Cycle", ""}

\* Flags(config_file).get(): checkpoint is "" or the path of the best-model
\* file; print_epochs 0 stands for None; ntrain and nvalid are
\* len(train_data_loader) and len(validation_data_loader)
Option(ck, sch, ne, pe, nt, nv, ds) ==
    [checkpoint |-> ck, network |-> "SATRN", scheduler |-> sch, num_epochs |-> ne,
     print_epochs |-> pe, ntrain |-> nt, nvalid |-> nv, dataset |-> ds]

\* the configurations of a first process: one epoch over several batches
\* under every scheduler, or several epochs of one batch each
OrdinaryOptions ==
    {Option("", sch, 1, 0, nt, nv, "formulas") :
        sch \in Schedulers, nt \in 1..MaxBatches, nv \in 1..MaxBatches}
    \cup
    {Option("", sch, ne, 0, 1, 1, "formulas") :
        sch \in {"Cycle", "StepLR"}, ne \in 1..MaxEpochs}

LongOptions == {Option("", "Cycle", ScoreEpochs, 3, 1, 1, "scores")}

\* -------------------------------------------------------- checkpoint store
Vocab == [token_to_id |-> [SOS |-> 0, EOS |-> 1, PAD |-> PadId, a |-> 3, b |-> 4],
          id_to_token |-> <<"SOS", "EOS", "PAD", "a", "b">>]

\* the module's dict after a run has appended an epoch to its lists
DefaultCheckpointUsed ==
    [epoch |-> 0,
     train_losses |-> <<<<2, 1>>>>, train_symbol_accuracy |-> <<<<1, 1>>>>,
     train_sentence_accuracy |-> <<<<1, 1>>>>, train_wer |-> <<<<0, 1>>>>,
     validation_losses |-> <<<<5, 1>>>>, validation_symbol_accuracy |-> <<<<1, 1>>>>,
     validation_sentence_accuracy |-> <<<<4, 1>>>>, validation_wer |-> <<<<6, 1>>>>,
     lr |-> <<>>, grad_norm |-> <<<<1, 1>>>>,
     model |-> 0, configs |-> <<>>, token_to_id |-> <<>>, id_to_token |-> <<>>,
     scheduler |-> <<>>, scheduler_name |-> ""]

\* checkpoint.default_checkpoint; the empty dict {} is <<>>, and the model
\* and optimizer states are the number of optimizer steps they hold
DefaultCheckpoint ==
    [epoch |-> 0,
     train_losses |-> <<>>, train_symbol_accuracy |-> <<>>,
     train_sentence_accuracy |-> <<>>, train_wer |-> <<>>,
     validation_losses |-> <<>>, validation_symbol_accuracy |-> <<>>,
     validation_sentence_accuracy |-> <<>>, validation_wer |-> <<>>,
     lr |-> <<>>, grad_norm |-> <<>>,
     model |-> 0, configs |-> <<>>, token_to_id |-> <<>>, id_to_token |-> <<>>,
     scheduler |-> <<>>, scheduler_name |-> ""]

NoFile == [kind |-> "none"]
PartialFile == [kind |-> "partial"]

\* the keys a checkpoint dict can have, in the order they are inserted
\* (train_backup.py 581-597, then the two keys only the default has)
KeyOrder ==
    <<"epoch", "train_losses", "train_symbol_accuracy", "train_sentence_accuracy",
      "train_wer", "validation_losses", "validation_symbol_accuracy",
      "validation_sentence_accuracy", "validation_wer", "lr", "grad_norm", "model",
      "optimizer", "configs", "token_to_id", "id_to_token", "network",
      "scheduler", "scheduler_name">>

\* torch.save pickles the dict: one entry per key, in the dict's order
Pickle(c) ==
    LET keys == SelectSeq(KeyOrder, LAMBDA k : k \in DOMAIN c)
    IN [i \in DOMAIN keys |-> <<keys[i], c[keys[i]]>>]

\* torch.load rebuilds the dict from the entries of the record
Unpickle(bytes) ==
    [k \in {bytes[i][1] : i \in DOMAIN bytes} |->
        bytes[CHOOSE i \in DOMAIN bytes : bytes[i][1] = k][2]]

\* the file a completed torch.save(c, path) leaves
CkptFile(c) == [kind |-> "ckpt", bytes |-> Pickle(c)]

\* save_checkpoint's file name in the checkpoint directory
FileNamePerEpoch(c) == <<c.network, c.epoch, "_best_model.pth">>

\* checkpoint.py 30: f"{checkpoint['network']}_best_model.pth"
FileName(c) == <<c.network, 0, "_best_model.pth">>

\* map_location=lambda storage, loc: storage keeps every tensor storage on
\* the CPU; the values, and whatever is not a tensor, are as unpickled
MapLocation(c) == c

\* a load that falls back to the default state
LoadCheckpointLenient(file, cuda) ==
    IF file.kind # "ckpt" THEN DefaultCheckpoint
    ELSE Unpickle(file.bytes)

\* a load that takes the weights and the counter and drops the histories
LoadCheckpointWeightsOnly(file, cuda) ==
    IF file.kind # "ckpt" THEN [raised |-> "torch.load"]
    ELSE LET c == Unpickle(file.bytes)
         IN [k \in DOMAIN c |-> IF k \in DOMAIN DefaultCheckpoint /\ k # "epoch"
                                      /\ k # "model"
                                THEN DefaultCheckpoint[k] ELSE c[k]]

\* load_checkpoint(path, cuda): torch.load raises on a missing file and on
\* a record that is not complete
LoadCheckpoint(file, cuda) ==
    IF file.kind # "ckpt" THEN [raised |-> "torch.load"]
    ELSE IF cuda THEN Unpickle(file.bytes)
    ELSE MapLocation(Unpickle(file.bytes))

\* -------------------------------------------------------------------- state
VARIABLES
    pc,                 \* position of the process in main and its passes
    err,                \* what ended the process: "" while none
    run,                \* number of the process
    options,            \* the configuration of the process
    disk,               \* prefix directory, log file, checkpoint directory and file
    last_save,          \* what the last completed save_checkpoint wrote
    default_checkpoint, \* the module-level dict of checkpoint.py
    checkpoint,         \* main's checkpoint dict; its lists are main's histories
    model,              \* optimizer steps held by the model weights
    lr_scheduler,       \* the scheduler object, or unbound
    grad_enabled,       \* torch's global gradient switch
    start_epoch, epoch, best_sentence_acc,
    main_loc,           \* main's per-epoch locals
    train_result, validation_result,
    b,                  \* batches of the running pass already consumed
    d,                  \* the batch in hand
    expected,           \* the target tensor of the batch in hand
    acc,                \* the running pass's accumulators
    saving,             \* the dict handed to save_checkpoint
    trace,              \* optimisation steps done on the batch in hand
    log                 \* what this process has done so far

vars == <<pc, err, run, options, disk, last_save, default_checkpoint, checkpoint,
          model, lr_scheduler, grad_enabled, start_epoch, epoch, best_sentence_acc,
          main_loc, train_result, validation_result, b, d, expected, acc, saving,
          trace, log>>

\* memory of a process that has not reached the statement setting it
Unbound == [bound |-> FALSE]
NoAcc == [losses |-> <<>>, grad_norms |-> <<>>, correct_symbols |-> 0,
          total_symbols |-> 0, wer |-> 0, num_wer |-> 0, sent_acc |-> 0,
          num_sent_acc |-> 0]
NoLog == [passes |-> <<>>, phases |-> <<>>, scores |-> <<>>, evals |-> <<>>,
          saves |-> <<>>, summaries |-> <<>>, advances |-> 0, valid_advances |-> 0,
          loads |-> 0, batches |-> <<>>]

\* a process at its first statement
Fresh ==
    /\ pc = "main"
    /\ err = ""
    /\ default_checkpoint = DefaultCheckpoint
    /\ checkpoint = Unbound
    /\ model = 0
    /\ lr_scheduler = Unbound
    /\ grad_enabled = TRUE
    /\ start_epoch = 0
    /\ epoch = 0
    /\ best_sentence_acc = <<0, 1>>
    /\ main_loc = Unbound
    /\ train_result = Unbound
    /\ validation_result = Unbound
    /\ b = 0
    /\ d = Unbound
    /\ expected = <<>>
    /\ acc = NoAcc
    /\ saving = Unbound
    /\ trace = <<>>
    /\ log = NoLog

Init ==
    /\ run = 1
    /\ options \in OrdinaryOptions \cup LongOptions
    /\ disk = [prefix |-> FALSE, log_file |-> <<>>, dir |-> FALSE, names |-> {},
               file |-> NoFile]
    /\ last_save = Unbound
    /\ Fresh

\* ------------------------------------------------------------- main: setup
\* an exception that is swallowed, the epoch starting over
RaiseRetry(kind) == pc' = "train" /\ err' = kind

\* an exception leaves main: the process ends with its frame as it is
Raise(kind) == pc' = "error" /\ err' = kind

\* lines 337-379: the configuration is read and the checkpoint chosen:
\* the module's default dict, or what load_checkpoint returns on this
\* machine (is_cuda); an exception of torch.load is not caught
MainLoad ==
    /\ pc = "main"
    /\ IF options.checkpoint = ""
       THEN /\ checkpoint' = default_checkpoint
            /\ pc' = "setup" /\ err' = err
            /\ log' = log
       ELSE \E is_cuda \in BOOLEAN :
               LET loaded == LoadCheckpoint(disk.file, is_cuda) IN
               /\ log' = [log EXCEPT !.loads = @ + 1]
               /\ IF "raised" \in DOMAIN loaded
                  THEN Raise("load") /\ checkpoint' = checkpoint
                  ELSE /\ checkpoint' = loaded
                       /\ pc' = "setup" /\ err' = err
    /\ UNCHANGED <<run, options, disk, last_save, default_checkpoint, model,
                   lr_scheduler, grad_enabled, start_epoch, epoch, best_sentence_acc,
                   main_loc, train_result, validation_result, b, d, expected, acc,
                   saving, trace>>

\* lines 433-465: the branches that bind lr_scheduler.  The plateau branch
\* reads options.schduler, an attribute the configuration does not have;
\* a name matching no branch leaves lr_scheduler unbound.
SelectScheduler(name) ==
    CASE name = "CustomCosine" -> [bound |-> TRUE, name |-> name, steps |-> 0]
      [] name = "ReduceLROnPlateau" -> [bound |-> FALSE, raised |-> "AttributeError"]
      [] name = "StepLR" -> [bound |-> TRUE, name |-> name, steps |-> 0]
      [] name = "Cycle" -> [bound |-> TRUE, name |-> name, steps |-> 0]
      [] OTHER -> Unbound

\* lines 381-465: data, network (from the checkpoint's weights), optimizer
\* and scheduler
MainSetup ==
    /\ pc = "setup"
    /\ model' = checkpoint.model
    /\ LET sch == SelectScheduler(options.scheduler) IN
       IF "raised" \in DOMAIN sch
       THEN Raise("setup") /\ lr_scheduler' = lr_scheduler
       ELSE lr_scheduler' = sch /\ pc' = "log" /\ err' = err
    /\ UNCHANGED <<run, options, disk, last_save, default_checkpoint, checkpoint,
                   grad_enabled, start_epoch, epoch, best_sentence_acc,
                   main_loc, train_result, validation_result, b, d, expected, acc,
                   saving, trace, log>>

\* lines 468-478: the prefix directory and log.txt are created, and
\* print_epochs defaults to num_epochs
MainOpenLog ==
    /\ pc = "log"
    /\ disk' = [disk EXCEPT !.prefix = TRUE, !.log_file = <<>>]
    /\ options' = IF options.print_epochs = 0
                  THEN [options EXCEPT !.print_epochs = options.num_epochs]
                  ELSE options
    /\ pc' = "init"
    /\ UNCHANGED <<err, run, last_save, default_checkpoint, checkpoint, model,
                   lr_scheduler, grad_enabled, start_epoch, epoch, best_sentence_acc,
                   main_loc, train_result, validation_result, b, d, expected, acc,
                   saving, trace, log>>

\* line 496: for epoch in range(options.num_epochs)
LoopHead(e) == IF e < options.num_epochs THEN "train" ELSE "End"

\* 0.9*acc + 0.1*(1 - wer), in hundredths, for acc and wer in tenths
CompositeScore(sen, w) ==
    Rat(AccWeight * sen[1] * w[2] + WerWeight * (One * w[2] - w[1]) * sen[2],
        sen[2] * w[2])

\* the composite scores of the epochs recorded in a checkpoint dict
HistoryScores(ckpt) ==
    [i \in 1..Len(ckpt.validation_wer) |->
        CompositeScore(ckpt.validation_sentence_accuracy[i], ckpt.validation_wer[i])]

\* a baseline restored from the loaded checkpoint's history
InitialBestFromHistory(ckpt) ==
    IF Len(ckpt.validation_wer) = 0 THEN <<BestInit, 1>> ELSE MaxRat(HistoryScores(ckpt))

\* line 493: the save baseline of a process
InitialBest(ckpt) == <<BestInit, 1>>

\* lines 479-493: the histories are the checkpoint's own lists
MainInit ==
    /\ pc = "init"
    /\ start_epoch' = checkpoint.epoch
    /\ best_sentence_acc' = InitialBest(checkpoint)
    /\ epoch' = 0
    /\ pc' = LoopHead(0)
    /\ UNCHANGED <<err, run, options, disk, last_save, default_checkpoint, checkpoint,
                   model, lr_scheduler, grad_enabled,
                   main_loc, train_result, validation_result, b, d, expected, acc,
                   saving, trace, log>>

\* ------------------------------------------------------- train_one_epoch
\* a batch loop that clips before it unscales
TrainStepOrderClipFirst ==
    <<"t_backward", "t_clip", "t_unscale", "t_step", "t_update", "t_metrics", "t_sched">>

\* the statements of one training batch after the forward pass, in program
\* order: lines 85-87 (zero_grad, scaler.scale(loss).backward()), 88, 90-93,
\* 96, 97, 99-111 and 112
TrainStepOrder ==
    <<"t_backward", "t_unscale", "t_clip", "t_step", "t_update", "t_metrics", "t_sched">>

\* the statement following statement p of a training batch
AfterStep(p) ==
    LET i == CHOOSE k \in DOMAIN TrainStepOrder : TrainStepOrder[k] = p IN
    IF i < Len(TrainStepOrder) THEN TrainStepOrder[i + 1] ELSE "t_fetch"

\* line 520 and lines 55-66: the call needs lr_scheduler bound; the pass
\* switches gradient tracking on and clears its accumulators
TrainBegin ==
    /\ pc = "train"
    /\ IF ~lr_scheduler.bound
       THEN /\ Raise("unbound")
            /\ UNCHANGED <<grad_enabled, acc, b, log>>
       ELSE /\ grad_enabled' = TRUE
            /\ acc' = NoAcc
            /\ b' = 0
            /\ log' = [log EXCEPT !.passes = Append(@, <<"train", epoch>>),
                                  !.phases = <<"train">>,
                                  !.advances = 0, !.valid_advances = 0,
                                  !.batches = <<>>]
            /\ pc' = "t_fetch" /\ err' = err
    /\ UNCHANGED <<run, options, disk, last_save, default_checkpoint, checkpoint,
                   model, lr_scheduler, start_epoch, epoch, best_sentence_acc,
                   main_loc, train_result, validation_result, d, expected,
                   saving, trace>>

\* lines 68-74: the next batch; -1 becomes the pad id
TrainFetch ==
    /\ pc = "t_fetch"
    /\ b < options.ntrain
    /\ \E o \in TrainBatches(options.dataset) :
          /\ d' = [truth |-> o.truth]
          /\ expected' = PadFill(o.truth)
    /\ trace' = <<>>
    /\ pc' = "t_forward"
    /\ UNCHANGED <<err, run, options, disk, last_save, default_checkpoint, checkpoint,
                   model, lr_scheduler, grad_enabled, start_epoch, epoch,
                   best_sentence_acc, main_loc, train_result, validation_result,
                   b, acc, saving, log>>

\* lines 76-83: the model's output on the batch, its arg-max and the loss
TrainForward ==
    /\ pc = "t_forward"
    /\ \E o \in TrainBatches(options.dataset) :
          /\ o.truth = d.truth
          /\ d' = o
    /\ pc' = TrainStepOrder[1]
    /\ UNCHANGED <<err, run, options, disk, last_save, default_checkpoint, checkpoint,
                   model, lr_scheduler, grad_enabled, start_epoch, epoch,
                   best_sentence_acc, main_loc, train_result, validation_result,
                   b, expected, acc, saving, trace, log>>

\* lines 85-87: optimizer.zero_grad(); scaler.scale(loss).backward()
TrainBackward ==
    /\ pc = "t_backward"
    /\ trace' = trace \o <<"scale", "backward">>
    /\ pc' = AfterStep("t_backward")
    /\ UNCHANGED <<err, run, options, disk, last_save, default_checkpoint, checkpoint,
                   model, lr_scheduler, grad_enabled, start_epoch, epoch,
                   best_sentence_acc, main_loc, train_result, validation_result,
                   b, d, expected, acc, saving, log>>

\* line 88: scaler.unscale_(optimizer)
TrainUnscale ==
    /\ pc = "t_unscale"
    /\ trace' = Append(trace, "unscale")
    /\ pc' = AfterStep("t_unscale")
    /\ UNCHANGED <<err, run, options, disk, last_save, default_checkpoint, checkpoint,
                   model, lr_scheduler, grad_enabled, start_epoch, epoch,
                   best_sentence_acc, main_loc, train_result, validation_result,
                   b, d, expected, acc, saving, log>>

\* lines 90-93: clip_grad_norm_ and grad_norms.append
TrainClip ==
    /\ pc = "t_clip"
    /\ trace' = Append(trace, "clip")
    /\ acc' = [acc EXCEPT !.grad_norms = Append(@, d.grad_norm)]
    /\ pc' = AfterStep("t_clip")
    /\ UNCHANGED <<err, run, options, disk, last_save, default_checkpoint, checkpoint,
                   model, lr_scheduler, grad_enabled, start_epoch, epoch,
                   best_sentence_acc, main_loc, train_result, validation_result,
                   b, d, expected, saving, log>>

\* line 96: scaler.step(optimizer)
TrainStep ==
    /\ pc = "t_step"
    /\ trace' = Append(trace, "step")
    /\ model' = model + 1
    /\ pc' = AfterStep("t_step")
    /\ UNCHANGED <<err, run, options, disk, last_save, default_checkpoint, checkpoint,
                   lr_scheduler, grad_enabled, start_epoch, epoch,
                   best_sentence_acc, main_loc, train_result, validation_result,
                   b, d, expected, acc, saving, log>>

\* line 97: scaler.update()
TrainUpdate ==
    /\ pc = "t_update"
    /\ trace' = Append(trace, "update")
    /\ pc' = AfterStep("t_update")
    /\ UNCHANGED <<err, run, options, disk, last_save, default_checkpoint, checkpoint,
                   model, lr_scheduler, grad_enabled, start_epoch, epoch,
                   best_sentence_acc, main_loc, train_result, validation_result,
                   b, d, expected, acc, saving, log>>

\* an accumulation that weights every batch by its number of examples
FoldWeighted(a, batch, exp) ==
    [a EXCEPT !.losses = Append(@, batch.loss),
              !.wer = @ + batch.wer * Len(batch.truth),
              !.num_wer = @ + Len(batch.truth),
              !.sent_acc = @ + batch.sent_acc * Len(batch.truth),
              !.num_sent_acc = @ + Len(batch.truth),
              !.correct_symbols = @ + CountCorrect(batch.sequence, exp),
              !.total_symbols = @ + CountTotal(exp)]

\* lines 99-109 and 174-184: the loss and the batch's metrics are folded
\* into the accumulators, on the tensor with the pad sentinel restored
Fold(a, batch, exp) ==
    [a EXCEPT !.losses = Append(@, batch.loss),
              !.wer = @ + batch.wer,
              !.num_wer = @ + 1,
              !.sent_acc = @ + batch.sent_acc,
              !.num_sent_acc = @ + 1,
              !.correct_symbols = @ + CountCorrect(batch.sequence, exp),
              !.total_symbols = @ + CountTotal(exp)]

\* lines 99-111
TrainMetrics ==
    /\ pc = "t_metrics"
    /\ expected' = PadRestore(expected)
    /\ acc' = Fold(acc, d, PadRestore(expected))
    /\ log' = [log EXCEPT !.batches = Append(@, d)]
    /\ pc' = AfterStep("t_metrics")
    /\ UNCHANGED <<err, run, options, disk, last_save, default_checkpoint, checkpoint,
                   model, lr_scheduler, grad_enabled, start_epoch, epoch,
                   best_sentence_acc, main_loc, train_result, validation_result,
                   b, d, saving, trace>>

\* line 112: lr_scheduler.step(), whatever the scheduler
TrainSchedStep ==
    /\ pc = "t_sched"
    /\ lr_scheduler' = [lr_scheduler EXCEPT !.steps = @ + 1]
    /\ trace' = Append(trace, "advance")
    /\ log' = [log EXCEPT !.advances = @ + 1]
    /\ b' = b + 1
    /\ pc' = AfterStep("t_sched")
    /\ UNCHANGED <<err, run, options, disk, last_save, default_checkpoint, checkpoint,
                   model, grad_enabled, start_epoch, epoch,
                   best_sentence_acc, main_loc, train_result, validation_result,
                   d, expected, acc, saving>>

\* lines 122-204: the result dict of a pass
Result(a) ==
    [bound |-> TRUE, loss |-> Mean(a.losses),
     correct_symbols |-> a.correct_symbols, total_symbols |-> a.total_symbols,
     wer |-> a.wer, num_wer |-> a.num_wer,
     sent_acc |-> a.sent_acc, num_sent_acc |-> a.num_sent_acc]

\* lines 114-137: the loader is exhausted and the pass returns
TrainReturn ==
    /\ pc = "t_fetch"
    /\ b = options.ntrain
    /\ train_result' = [grad_norm |-> Mean(acc.grad_norms)] @@ Result(acc)
    /\ log' = [log EXCEPT !.phases = Append(@, "train_returned")]
    /\ pc' = "train_hist"
    /\ UNCHANGED <<err, run, options, disk, last_save, default_checkpoint, checkpoint,
                   model, lr_scheduler, grad_enabled, start_epoch, epoch,
                   best_sentence_acc, main_loc, validation_result,
                   b, d, expected, acc, saving, trace>>

\* --------------------------------------------------- main: after each pass
\* main's history names are the lists of the checkpoint dict, and without a
\* checkpoint path that dict is the module-level default_checkpoint itself
SetHistories(c) ==
    /\ checkpoint' = c
    /\ default_checkpoint' = IF options.checkpoint = "" THEN c ELSE default_checkpoint

\* an append that is lost
HistAppendLost(list, x) == list

\* an append that replaces the last entry
HistAppendOver(list, x) == IF list = <<>> THEN <<x>> ELSE [list EXCEPT ![Len(list)] = x]

\* list.append
HistAppend(list, x) == Append(list, x)

\* line 539: lr_scheduler.get_lr(), one rate per parameter group; a rate
\* is given by the position of the schedule it is read at
GetLr(sch) == <<sch.steps>>

\* a ratio that is 0 when nothing was counted
SymbolAccuracyOrZero(r) ==
    IF r.total_symbols = 0 THEN [value |-> <<0, 1>>]
    ELSE [value |-> Rat(r.correct_symbols, r.total_symbols)]

\* lines 524-526 and 559-561: correct_symbols / total_symbols on Python
\* ints, which raises ZeroDivisionError on a zero divisor
SymbolAccuracy(r) ==
    IF r.total_symbols = 0 THEN [raised |-> "ZeroDivisionError"]
    ELSE [value |-> Rat(r.correct_symbols, r.total_symbols)]

\* lines 522-539
MainTrainHistory ==
    /\ pc = "train_hist"
    /\ LET r == train_result
           c1 == [checkpoint EXCEPT
                    !.train_losses = HistAppend(@, r.loss),
                    !.grad_norm = HistAppend(@, r.grad_norm)]
           sa == SymbolAccuracy(r)
           sym == sa.value
           sen == Rat(r.sent_acc, r.num_sent_acc)
           w == Rat(r.wer, r.num_wer)
       IN
       IF "raised" \in DOMAIN sa
       THEN /\ SetHistories(c1)
            /\ Raise("zero_train")
            /\ UNCHANGED <<main_loc, log>>
       ELSE /\ SetHistories([c1 EXCEPT
                    !.train_symbol_accuracy = HistAppend(@, sym),
                    !.train_sentence_accuracy = HistAppend(@, sen),
                    !.train_wer = HistAppend(@, w)])
            /\ main_loc' = [bound |-> TRUE,
                            train_epoch_symbol_accuracy |-> sym,
                            train_epoch_sentence_accuracy |-> sen,
                            train_epoch_wer |-> w,
                            epoch_lr |-> GetLr(lr_scheduler)]
            /\ log' = [log EXCEPT !.phases = Append(@, "train_history")]
            /\ pc' = "valid" /\ err' = err
    /\ UNCHANGED <<run, options, disk, last_save, model, lr_scheduler, grad_enabled,
                   start_epoch, epoch, best_sentence_acc, train_result,
                   validation_result, b, d, expected, acc, saving, trace>>

\* --------------------------------------------------------- valid_one_epoch
\* line 555 and lines 147-155
ValidBegin ==
    /\ pc = "valid"
    /\ acc' = NoAcc
    /\ b' = 0
    /\ log' = [log EXCEPT !.passes = Append(@, <<"valid", epoch>>),
                          !.phases = Append(@, "valid"),
                          !.batches = <<>>]
    /\ pc' = "v_fetch"
    /\ UNCHANGED <<err, run, options, disk, last_save, default_checkpoint, checkpoint,
                   model, lr_scheduler, grad_enabled, start_epoch, epoch,
                   best_sentence_acc, main_loc, train_result, validation_result,
                   d, expected, saving, trace>>

\* lines 158-164
ValidFetch ==
    /\ pc = "v_fetch"
    /\ b < options.nvalid
    /\ \E o \in ValidBatches(options.dataset) :
          /\ d' = [truth |-> o.truth]
          /\ expected' = PadFill(o.truth)
    /\ pc' = "v_forward"
    /\ UNCHANGED <<err, run, options, disk, last_save, default_checkpoint, checkpoint,
                   model, lr_scheduler, grad_enabled, start_epoch, epoch,
                   best_sentence_acc, main_loc, train_result, validation_result,
                   b, acc, saving, trace, log>>

\* lines 165-172
ValidForward ==
    /\ pc = "v_forward"
    /\ \E o \in ValidBatches(options.dataset) :
          /\ o.truth = d.truth
          /\ d' = o
    /\ pc' = "v_metrics"
    /\ UNCHANGED <<err, run, options, disk, last_save, default_checkpoint, checkpoint,
                   model, lr_scheduler, grad_enabled, start_epoch, epoch,
                   best_sentence_acc, main_loc, train_result, validation_result,
                   b, expected, acc, saving, trace, log>>

\* lines 174-186; the schedule is not touched
ValidSchedule(sch) == sch

ValidMetrics ==
    /\ pc = "v_metrics"
    /\ expected' = PadRestore(expected)
    /\ acc' = Fold(acc, d, PadRestore(expected))
    /\ lr_scheduler' = ValidSchedule(lr_scheduler)
    /\ log' = [log EXCEPT !.valid_advances =
                             @ + lr_scheduler'.steps - lr_scheduler.steps,
                          !.batches = Append(@, d)]
    /\ b' = b + 1
    /\ pc' = "v_fetch"
    /\ UNCHANGED <<err, run, options, disk, last_save, default_checkpoint, checkpoint,
                   model, grad_enabled, start_epoch, epoch,
                   best_sentence_acc, main_loc, train_result, validation_result,
                   d, saving, trace>>

\* lines 188-204
ValidReturn ==
    /\ pc = "v_fetch"
    /\ b = options.nvalid
    /\ validation_result' = Result(acc)
    /\ log' = [log EXCEPT !.phases = Append(@, "valid_returned")]
    /\ pc' = "valid_hist"
    /\ UNCHANGED <<err, run, options, disk, last_save, default_checkpoint, checkpoint,
                   model, lr_scheduler, grad_enabled, start_epoch, epoch,
                   best_sentence_acc, main_loc, train_result,
                   b, d, expected, acc, saving, trace>>

\* lines 557-572
MainValidHistory ==
    /\ pc = "valid_hist"
    /\ LET r == validation_result
           c1 == [checkpoint EXCEPT !.validation_losses = HistAppend(@, r.loss)]
           sa == SymbolAccuracy(r)
           sym == sa.value
           sen == Rat(r.sent_acc, r.num_sent_acc)
           w == Rat(r.wer, r.num_wer)
       IN
       IF "raised" \in DOMAIN sa
       THEN /\ SetHistories(c1)
            /\ Raise("zero_valid")
            /\ UNCHANGED <<main_loc, log>>
       ELSE /\ SetHistories([c1 EXCEPT
                    !.validation_symbol_accuracy = HistAppend(@, sym),
                    !.validation_sentence_accuracy = HistAppend(@, sen),
                    !.validation_wer = HistAppend(@, w)])
            /\ main_loc' = [validation_epoch_symbol_accuracy |-> sym,
                            validation_epoch_sentence_accuracy |-> sen,
                            validation_epoch_wer |-> w] @@ main_loc
            /\ log' = [log EXCEPT !.phases = Append(@, "valid_history")]
            /\ pc' = "save_cond" /\ err' = err
    /\ UNCHANGED <<run, options, disk, last_save, model, lr_scheduler, grad_enabled,
                   start_epoch, epoch, best_sentence_acc, train_result,
                   validation_result, b, d, expected, acc, saving, trace>>

\* ------------------------------------------------------ main: save policy
\* a save policy that also saves on a tie
SaveConditionTies(best, score) == ~Less(score, best)

\* line 578: best_sentence_acc < score
SaveCondition(best, score) == Less(best, score)

\* lines 574-578
MainSaveCond ==
    /\ pc = "save_cond"
    /\ LET score == CompositeScore(main_loc.validation_epoch_sentence_accuracy,
                                   main_loc.validation_epoch_wer)
       IN /\ log' = [log EXCEPT !.scores = Append(@, score),
                                !.evals = Append(@, epoch),
                                !.phases = Append(@, "save_condition")]
          /\ pc' = IF SaveCondition(best_sentence_acc, score) THEN "save" ELSE "summary"
    /\ UNCHANGED <<err, run, options, disk, last_save, default_checkpoint, checkpoint,
                   model, lr_scheduler, grad_enabled, start_epoch, epoch,
                   best_sentence_acc, main_loc, train_result, validation_result,
                   b, d, expected, acc, saving, trace>>

\* lines 580-598: the dict main hands to save_checkpoint
SaveDict ==
    [epoch |-> start_epoch + epoch + 1,
     train_losses |-> checkpoint.train_losses,
     train_symbol_accuracy |-> checkpoint.train_symbol_accuracy,
     train_sentence_accuracy |-> checkpoint.train_sentence_accuracy,
     train_wer |-> checkpoint.train_wer,
     validation_losses |-> checkpoint.validation_losses,
     validation_symbol_accuracy |-> checkpoint.validation_symbol_accuracy,
     validation_sentence_accuracy |-> checkpoint.validation_sentence_accuracy,
     validation_wer |-> checkpoint.validation_wer,
     lr |-> main_loc.epoch_lr,
     grad_norm |-> checkpoint.grad_norm,
     model |-> model,
     optimizer |-> model,
     configs |-> [scheduler |-> options.scheduler, num_epochs |-> options.num_epochs,
                  checkpoint |-> options.checkpoint],
     token_to_id |-> Vocab.token_to_id,
     id_to_token |-> Vocab.id_to_token,
     network |-> options.network]

\* torch.save opens the target for writing, which empties it, before the
\* record is written
OpenForWrite(file) == PartialFile

\* lines 579-600 and checkpoint.py 30-33, up to the opening of the file:
\* the directory is created when missing and the old file is truncated
SaveOpen ==
    /\ pc = "save"
    /\ saving' = SaveDict
    /\ disk' = [disk EXCEPT !.dir = TRUE, !.names = @ \cup {FileName(SaveDict)},
                            !.file = OpenForWrite(@)]
    /\ log' = [log EXCEPT !.saves = Append(@, epoch)]
    /\ pc' = "save_write"
    /\ UNCHANGED <<err, run, options, last_save, default_checkpoint, checkpoint,
                   model, lr_scheduler, grad_enabled, start_epoch, epoch,
                   best_sentence_acc, main_loc, train_result, validation_result,
                   b, d, expected, acc, trace>>

\* checkpoint.py 33: the record is written and the file closed
SaveWrite ==
    /\ pc = "save_write"
    /\ disk' = [disk EXCEPT !.file = CkptFile(saving)]
    /\ last_save' = saving
    /\ pc' = "best"
    /\ UNCHANGED <<err, run, options, default_checkpoint, checkpoint,
                   model, lr_scheduler, grad_enabled, start_epoch, epoch,
                   best_sentence_acc, main_loc, train_result, validation_result,
                   b, d, expected, acc, saving, trace, log>>

\* lines 601-603
MainBest ==
    /\ pc = "best"
    /\ best_sentence_acc' = CompositeScore(main_loc.validation_epoch_sentence_accuracy,
                                           main_loc.validation_epoch_wer)
    /\ pc' = "summary"
    /\ UNCHANGED <<err, run, options, disk, last_save, default_checkpoint, checkpoint,
                   model, lr_scheduler, grad_enabled, start_epoch, epoch,
                   main_loc, train_result, validation_result,
                   b, d, expected, acc, saving, trace, log>>

\* a cadence without the final epoch
SummaryDueCadenceOnly(e) == e % options.print_epochs = 0

\* line 608
SummaryDue(e) == e % options.print_epochs = 0 \/ e = options.num_epochs - 1

\* lines 605-664 and the loop's next iteration
MainSummary ==
    /\ pc = "summary"
    /\ IF SummaryDue(epoch)
       THEN /\ disk' = [disk EXCEPT !.log_file = Append(@, start_epoch + epoch + 1)]
            /\ log' = [log EXCEPT !.summaries = Append(@, epoch),
                                  !.phases = Append(@, "summary")]
       ELSE UNCHANGED <<disk, log>>
    /\ epoch' = epoch + 1
    /\ pc' = LoopHead(epoch + 1)
    /\ UNCHANGED <<err, run, options, last_save, default_checkpoint, checkpoint,
                   model, lr_scheduler, grad_enabled, start_epoch,
                   best_sentence_acc, main_loc, train_result, validation_result,
                   b, d, expected, acc, saving, trace>>

\* ------------------------------------------------------ failure and restart
TrainPcs == {"t_fetch", "t_forward"} \cup {TrainStepOrder[i] : i \in DOMAIN TrainStepOrder}
ValidPcs == {"v_fetch", "v_forward", "v_metrics"}
Ended == {"End", "error", "killed"}

\* a statement of a pass raises (the model, the criterion, the loader, a
\* metric): neither pass nor main catches it
PassRaises ==
    /\ pc \in TrainPcs \cup ValidPcs
    /\ Raise(IF pc \in TrainPcs THEN "train_pass" ELSE "valid_pass")
    /\ UNCHANGED <<run, options, disk, last_save, default_checkpoint, checkpoint,
                   model, lr_scheduler, grad_enabled, start_epoch, epoch,
                   best_sentence_acc, main_loc, train_result, validation_result,
                   b, d, expected, acc, saving, trace, log>>

\* the memory of a process that is gone
Gone ==
    /\ err' = ""
    /\ default_checkpoint' = DefaultCheckpoint
    /\ checkpoint' = Unbound
    /\ model' = 0
    /\ lr_scheduler' = Unbound
    /\ grad_enabled' = TRUE
    /\ start_epoch' = 0
    /\ epoch' = 0
    /\ best_sentence_acc' = <<0, 1>>
    /\ main_loc' = Unbound
    /\ train_result' = Unbound
    /\ validation_result' = Unbound
    /\ b' = 0
    /\ d' = Unbound
    /\ expected' = <<>>
    /\ acc' = NoAcc
    /\ saving' = Unbound
    /\ trace' = <<>>
    /\ log' = NoLog

\* an interrupt or a kill between any two steps: the memory is lost and the
\* disk stays as it is
Cancel ==
    /\ pc \notin Ended
    /\ pc' = "killed"
    /\ Gone
    /\ UNCHANGED <<run, options, disk, last_save>>

\* the configurations of a process started after another one: it resumes
\* from the best-model file, for as many epochs as the counter's cap allows
ResumeOptions(o, file) ==
    {Option("best", o.scheduler, ne, 0, 1, 1, o.dataset) :
        ne \in {n \in 1..MaxEpochs :
                   file.kind = "ckpt" => Unpickle(file.bytes).epoch + n <= MaxCounter}}

\* a new process over the same disk
Restart ==
    /\ pc \in Ended
    /\ run < MaxRuns
    /\ run' = run + 1
    /\ options' \in ResumeOptions(options, disk.file)
    /\ pc' = "main"
    /\ Gone
    /\ UNCHANGED <<disk, last_save>>

\* --------------------------------------------------------- specifications
Step ==
    \/ MainLoad \/ MainSetup \/ MainOpenLog \/ MainInit
    \/ TrainBegin \/ TrainFetch \/ TrainForward \/ TrainBackward \/ TrainUnscale
    \/ TrainClip \/ TrainStep \/ TrainUpdate \/ TrainMetrics \/ TrainSchedStep
    \/ TrainReturn \/ MainTrainHistory
    \/ ValidBegin \/ ValidFetch \/ ValidForward \/ ValidMetrics \/ ValidReturn
    \/ MainValidHistory
    \/ MainSaveCond \/ SaveOpen \/ SaveWrite \/ MainBest \/ MainSummary

Next == Step \/ PassRaises \/ Cancel

Spec == Init /\ [][Next]_vars

\* processes started one after the other over the same disk
LeanOptions ==
    {Option(ck, sch, ne, 0, 1, 1, "short") :
        ck \in {"", "best"}, sch \in Schedulers, ne \in 1..MaxEpochs}

InitResume ==
    /\ run = 1
    /\ options \in LeanOptions
    /\ disk = [prefix |-> FALSE, log_file |-> <<>>, dir |-> FALSE, names |-> {},
               file |-> NoFile]
    /\ last_save = Unbound
    /\ Fresh

NextResume == Next \/ Restart

SpecResume == InitResume /\ [][NextResume]_vars

\* ------------------------------------------------------------------ claims
Range(s) == {s[i] : i \in DOMAIN s}
IsPrefix(s, t) == Len(s) <= Len(t) /\ \A i \in DOMAIN s : s[i] = t[i]

\* save_checkpoint has been called, or is being called, for the i-th epoch
\* of this process (loop index i - 1)
SaveCalled(i) == (i - 1) \in Range(log.saves) \/ (pc = "save" /\ i = Len(log.scores))

\* the best score before the i-th epoch, from the scores alone: 0, or the
\* largest score of an earlier epoch that saved
RECURSIVE BestBefore(_)
BestBefore(i) ==
    IF i = 1 THEN <<0, 1>>
    ELSE LET prev == BestBefore(i - 1) IN
         IF SaveCalled(i - 1) /\ Less(prev, log.scores[i - 1])
         THEN log.scores[i - 1] ELSE prev

ExampleScores == <<<<50, 1>>, <<40, 1>>, <<60, 1>>, <<60, 1>>, <<70, 1>>>>

\* C1: in one run of main, save_checkpoint is called at epoch index i if and
\* only if the epoch's validation composite score is strictly greater than
\* the best score so far (0 before the first epoch, otherwise the largest
\* score of an earlier epoch that saved); a tie never saves; for the scores
\* 0.5, 0.4, 0.6, 0.6, 0.7 the saves are at indices 0, 2 and 4.
C1_SaveIffStrictlyBetter ==
    /\ \A i \in DOMAIN log.scores :
          SaveCalled(i) <=> Less(BestBefore(i), log.scores[i])
    /\ (log.scores = ExampleScores /\ pc # "save") => log.saves = <<0, 2, 4>>

C1_Witness ==
    /\ pc = "End"
    /\ log.scores = ExampleScores
    /\ log.saves = <<0, 2, 4>>

\* C2: the save baseline is 0 at every process start and is not read from
\* the loaded checkpoint: in a resumed run the first epoch whose validation
\* composite score is greater than 0 calls save_checkpoint, also when that
\* score is lower than the best score H of the loaded history.
C2_BaselineResetOnStart ==
    /\ (pc = "train" /\ epoch = 0) => best_sentence_acc = <<0, 1>>
    /\ options.checkpoint # "" =>
          \A i \in DOMAIN log.scores :
             ((\A j \in 1..(i - 1) : ~Less(<<0, 1>>, log.scores[j]))
                 /\ Less(<<0, 1>>, log.scores[i]))
             => SaveCalled(i)

\* a resumed process has overwritten the file it loaded with an epoch whose
\* score is below the loaded history's best
C2_Witness ==
    /\ run > 1
    /\ options.checkpoint # ""
    /\ pc = "best"
    /\ Len(log.scores) = 2
    /\ log.saves = <<1>>
    /\ disk.file = CkptFile(saving)
    /\ Less(log.scores[2], MaxRat(SubSeq(HistoryScores(checkpoint), 1, start_epoch)))

FixedOrder == <<"scale", "backward", "unscale", "clip", "step", "update", "advance">>

\* C3: in every training batch the steps scale, backward, unscale, clip,
\* optimizer step, scale update, schedule advance run in this order, each
\* once, and a batch starts only when the batch before it has done them all.
C3_BatchStepOrder ==
    pc \in TrainPcs =>
       /\ IsPrefix(trace, FixedOrder)
       /\ (pc = "t_forward" => trace = <<>>)
       /\ (pc = "t_fetch" /\ b > 0) => trace = FixedOrder
       /\ (pc = "t_fetch") => log.advances = b

C3_Witness ==
    /\ pc = "t_fetch"
    /\ b = 2
    /\ trace = FixedOrder
    /\ options.ntrain = 2

TrainHistories == {"train_losses", "train_symbol_accuracy", "train_sentence_accuracy",
                   "train_wer", "grad_norm"}
ValidHistories == {"validation_losses", "validation_symbol_accuracy",
                   "validation_sentence_accuracy", "validation_wer"}
HistoryNames == TrainHistories \cup ValidHistories \cup {"lr"}

\* between two epochs, or after the last one
AtBoundary == pc \in {"train", "End"}

\* inside the body of the epoch with loop index epoch
InBody ==
    \/ pc \in TrainPcs \cup ValidPcs
    \/ pc \in {"train_hist", "valid", "valid_hist", "save_cond", "save", "save_write",
               "best", "summary"}
    \/ pc = "error" /\ err \in {"train_pass", "valid_pass", "zero_train", "zero_valid"}

\* C4: at every epoch boundary and in every saved checkpoint all history
\* sequences (losses, symbol and sentence accuracy, word error rate, the
\* learning rate, the mean gradient norm) have the same length, one entry
\* per completed epoch.
C4_HistoriesEqualLength ==
    /\ AtBoundary =>
          \A h \in HistoryNames : Len(checkpoint[h]) = start_epoch + epoch
    /\ disk.file.kind = "ckpt" =>
          \A h \in HistoryNames :
             Len(Unpickle(disk.file.bytes)[h]) = Unpickle(disk.file.bytes).epoch

\* C5: after every completed epoch and at the end of the run, train_losses
\* and validation_losses both have as many entries as the epoch counter:
\* the start epoch plus the epochs completed by this process; the counter
\* written into a checkpoint file equals both lengths.
C5_LossLengthsEqualCounter ==
    /\ AtBoundary =>
          /\ Len(checkpoint.train_losses) = start_epoch + epoch
          /\ Len(checkpoint.validation_losses) = start_epoch + epoch
    /\ pc \in {"save_cond", "save", "save_write", "best", "summary"} =>
          /\ Len(checkpoint.train_losses) = start_epoch + epoch + 1
          /\ Len(checkpoint.validation_losses) = start_epoch + epoch + 1
    /\ disk.file.kind = "ckpt" =>
          /\ Len(Unpickle(disk.file.bytes).train_losses) = Unpickle(disk.file.bytes).epoch
          /\ Len(Unpickle(disk.file.bytes).validation_losses)
                = Unpickle(disk.file.bytes).epoch

\* a resumed process has ended with a counter above its loop index
C5_Witness ==
    /\ run = 2
    /\ pc = "End"
    /\ start_epoch = 1
    /\ epoch = 2
    /\ Len(checkpoint.train_losses) = 3
    /\ Len(checkpoint.validation_losses) = 3

EpochPhases == <<"train", "train_returned", "train_history", "valid", "valid_returned",
                 "valid_history", "save_condition", "summary">>

PassCount(kind) == Cardinality({i \in DOMAIN log.passes : log.passes[i][1] = kind})

\* C7: unless a pass raises, the run reaches End, having run exactly
\* num_epochs train passes and num_epochs validation passes.
C7_EndsUnlessPassRaises ==
    /\ pc = "error" => err \in {"train_pass", "valid_pass"}
    /\ pc = "End" =>
          /\ PassCount("train") = options.num_epochs
          /\ PassCount("valid") = options.num_epochs
    /\ pc \notin Ended => ENABLED Step

\* C8: when the train or validation pass of epoch i raises, the process is
\* over: no step of main follows, the pass was started once, the save
\* condition of epoch i was not evaluated, no summary was emitted for it, and
\* no pass of a later epoch was started.
C8_PassFailureEndsRun ==
    err \in {"train_pass", "valid_pass"} =>
       /\ pc = "error"
       /\ ~ENABLED Step
       /\ epoch \notin Range(log.evals)
       /\ epoch \notin Range(log.summaries)
       /\ \A p \in Range(log.passes) : p[2] <= epoch
       /\ \A k \in {"train", "valid"} :
             Cardinality({i \in DOMAIN log.passes : log.passes[i] = <<k, epoch>>}) <= 1

C8_Witness ==
    /\ pc = "error"
    /\ err = "valid_pass"
    /\ epoch = 1
    /\ log.evals = <<0>>
    /\ log.passes = <<<<"train", 0>>, <<"valid", 0>>, <<"train", 1>>, <<"valid", 1>>>>

\* C9: after a cancellation at any point, the checkpoint file holds what
\* the last completed save wrote.
C9_LastSaveIntact ==
    (pc = "killed" /\ "epoch" \in DOMAIN last_save) => disk.file = CkptFile(last_save)

\* C10: the schedule is advanced once per training batch under a cyclical
\* scheduler, once per epoch under a plateau or step scheduler, and never
\* during a validation pass.
C10_AdvanceCadence ==
    /\ pc = "train_hist" =>
          /\ lr_scheduler.name \in {"Cycle", "CustomCosine"} =>
                log.advances = options.ntrain
          /\ lr_scheduler.name \in {"ReduceLROnPlateau", "StepLR"} =>
                log.advances = 1
    /\ log.valid_advances = 0

\* C11: gradient tracking is enabled during a pass only if the pass is a
\* train pass: in every epoch it is disabled for the whole of
\* valid_one_epoch.
C11_GradOnlyInTrain ==
    pc \in ValidPcs => ~grad_enabled

\* the scheduler names the branches of lines 434-459 compare against
RecognisedSchedulers == {"CustomCosine", "ReduceLROnPlateau", "StepLR", "Cycle"}

\* C12: under a scheduler name that is not recognised, main ends in an
\* error before the first training batch and before any side effect of the
\* training phase (the log directory and log file, a checkpoint save), and
\* no schedule is substituted for the missing one.
C12_UnknownSchedulerFailsFast ==
    options.scheduler \notin RecognisedSchedulers =>
       /\ pc # "End"
       /\ pc \notin TrainPcs \cup ValidPcs
       /\ log.passes = <<>>
       /\ ~lr_scheduler.bound
       /\ ~disk.prefix
       /\ ~disk.dir
       /\ disk.file = NoFile

\* C13: when a train or validation pass returns total_symbols = 0, the run
\* ends in an error at the symbol-accuracy computation: the symbol-accuracy
\* history gets no entry for that epoch (not 0 either), the save condition
\* is not evaluated and no checkpoint is saved for the epoch.
C13_ZeroTotalIsFatal ==
    /\ (train_result.bound /\ pc # "train_hist" /\ train_result.total_symbols = 0) =>
          /\ pc = "error"
          /\ err = "zero_train"
    /\ (validation_result.bound /\ pc # "valid_hist"
           /\ validation_result.total_symbols = 0) =>
          /\ pc = "error"
          /\ err = "zero_valid"
    /\ err = "zero_train" =>
          /\ ~ENABLED Step
          /\ Len(checkpoint.train_symbol_accuracy) = start_epoch + epoch
          /\ epoch \notin Range(log.evals) \cup Range(log.saves)
    /\ err = "zero_valid" =>
          /\ ~ENABLED Step
          /\ Len(checkpoint.validation_symbol_accuracy) = start_epoch + epoch
          /\ epoch \notin Range(log.evals) \cup Range(log.saves)

\* the validation pass of the first epoch counted no symbol: its loss is
\* recorded, its symbol accuracy is not
C13_Witness ==
    /\ pc = "error"
    /\ err = "zero_valid"
    /\ validation_result.total_symbols = 0
    /\ Len(checkpoint.validation_losses) = 1
    /\ checkpoint.validation_symbol_accuracy = <<>>
    /\ disk.file = NoFile

\* the summary cadence N: print_epochs, or num_epochs when it is not set
Cadence == IF options.print_epochs = 0 THEN options.num_epochs ELSE options.print_epochs

\* C14: with cadence N, the epoch with loop index e emits a summary if and
\* only if e is a multiple of N or e = num_epochs - 1; the final epoch
\* always emits one, and an emitting epoch emits exactly one (one line of
\* the log file each).
C14_SummaryCadence ==
    /\ \A e \in 0..(epoch - 1) :
          e \in Range(log.summaries) <=> (e % Cadence = 0 \/ e = options.num_epochs - 1)
    /\ Range(log.summaries) \subseteq 0..(epoch - 1)
    /\ \A i, j \in DOMAIN log.summaries : log.summaries[i] = log.summaries[j] => i = j
    /\ pc \notin {"main", "setup", "log", "killed"} =>
          disk.log_file = [i \in DOMAIN log.summaries |-> start_epoch + log.summaries[i] + 1]
    /\ pc = "End" => (options.num_epochs - 1) \in Range(log.summaries)

\* five epochs at cadence 3: summaries for the indices 0 and 3, and for the
\* final index 4, which is no multiple of 3
C14_Witness ==
    /\ pc = "End"
    /\ options.num_epochs = 5
    /\ options.print_epochs = 3
    /\ log.summaries = <<0, 3, 4>>

\* C15: after any sequence of completed save_checkpoint calls for one
\* network, dir and prefix, the checkpoint directory holds exactly one
\* checkpoint file, named <network>_best_model.pth, whose content is the
\* argument of the most recent call; the directory exists from the first
\* call on.
C15_OneFileLatestContent ==
    /\ pc = "best" =>
          /\ disk.dir
          /\ disk.names = {<<options.network, 0, "_best_model.pth">>}
          /\ disk.file = CkptFile(SaveDict)
    /\ disk.file.kind = "ckpt" =>
          /\ disk.dir
          /\ Cardinality(disk.names) = 1
          /\ Unpickle(disk.file.bytes) = last_save
    /\ disk.dir <=> disk.names # {}
    /\ (pc \notin {"killed", "main"} /\ log.saves = <<>>) => ~disk.dir

\* the third save of a process has returned: one file, holding the third
\* argument
C15_Witness ==
    /\ pc = "best"
    /\ Len(log.saves) = 3
    /\ Cardinality(disk.names) = 1
    /\ Unpickle(disk.file.bytes).epoch = epoch + 1
    /\ Unpickle(disk.file.bytes).epoch > 1

\* C16: with an empty checkpoint path main does not call load_checkpoint
\* and starts from the default empty state (start epoch 0, every history
\* sequence empty, no model weights), and the first checkpoint the run
\* saves has epoch equal to its loop index plus 1.
C16_DefaultStateWithoutPath ==
    (options.checkpoint = "" /\ pc # "killed") =>
       /\ log.loads = 0
       /\ start_epoch = 0
       /\ pc \in {"setup", "log", "init"} =>
             /\ checkpoint.epoch = 0
             /\ checkpoint.model = 0
             /\ \A h \in HistoryNames : checkpoint[h] = <<>>
       /\ pc \in {"log", "init"} => model = 0
       /\ (pc \in {"train", "End"} /\ epoch = 0) =>
             \A h \in HistoryNames : checkpoint[h] = <<>>
       /\ (pc \in {"save_write", "best"} /\ Len(log.saves) = 1) =>
             /\ log.saves[1] = epoch
             /\ saving.epoch = epoch + 1
       /\ (pc = "best" /\ Len(log.saves) = 1) =>
             Unpickle(disk.file.bytes).epoch = epoch + 1

\* a run without a checkpoint path saves for the first time in its second
\* epoch: the file's epoch is 2
C16_Witness ==
    /\ options.checkpoint = ""
    /\ log.loads = 0
    /\ pc = "best"
    /\ log.saves = <<1>>
    /\ Unpickle(disk.file.bytes).epoch = 2

\* C17: when load_checkpoint fails, on a missing file or on a record that
\* is not complete, the failure leaves main: no field of the state is taken
\* from the file, no epoch is run and no checkpoint is saved.
C17_LoadFailurePropagates ==
    /\ (options.checkpoint # "" /\ pc \notin {"main", "killed"}
           /\ (pc = "error" => err # "load")) =>
          /\ log.loads = 1
          /\ checkpoint.epoch >= 1
          /\ \A h \in TrainHistories \cup ValidHistories : Len(checkpoint[h]) >= 1
    /\ err = "load" =>
          /\ pc = "error"
          /\ ~ENABLED Step
          /\ disk.file.kind # "ckpt"
          /\ checkpoint = Unbound
          /\ start_epoch = 0
          /\ model = 0
          /\ log.passes = <<>>
          /\ log.saves = <<>>
          /\ epoch = 0
          /\ main_loc = Unbound

\* a process was killed while it wrote the file; the next one fails to load
\* the incomplete record
C17_Witness ==
    /\ run = 2
    /\ pc = "error"
    /\ err = "load"
    /\ disk.file = PartialFile
    /\ log.loads = 1

\* the fields of two checkpoint dicts the round trip is about
SameTrainingState(c1, c2) ==
    /\ c1.epoch = c2.epoch
    /\ \A h \in HistoryNames : c1[h] = c2[h]
    /\ c1.token_to_id = c2.token_to_id
    /\ c1.id_to_token = c2.id_to_token

NonPad(bt) ==
    Sum([i \in DOMAIN bt.truth |->
            Cardinality({j \in 2..Len(bt.truth[i]) : bt.truth[i][j] # -1})])
Correct(bt) ==
    Sum([i \in DOMAIN bt.truth |->
            Cardinality({j \in 2..Len(bt.truth[i]) :
                            bt.truth[i][j] # -1 /\ bt.sequence[i][j - 1] = bt.truth[i][j]})])

\* the two averages of a per-batch value over the batches of a pass: every
\* batch once, or every batch by its number of examples
Values(bs, f) == [i \in DOMAIN bs |-> bs[i][f]]
Sizes(bs) == [i \in DOMAIN bs |-> Len(bs[i].truth)]
BatchAveraged(bs, f) == Rat(Sum(Values(bs, f)), Len(bs))
SampleWeighted(bs, f) ==
    Rat(Sum([i \in DOMAIN bs |-> ExampleTotal(bs[i][f], Len(bs[i].truth))]),
        Sum(Sizes(bs)))

\* the entry main has just recorded for the pass whose batches are log.batches
Recorded(h) == checkpoint[h][Len(checkpoint[h])]

\* the recorded metrics of a pass are the aggregates of its batches
RecordedAggregates(sym, sen, w) ==
    /\ Recorded(sym) = Rat(Sum([i \in DOMAIN log.batches |-> Correct(log.batches[i])]),
                           Sum([i \in DOMAIN log.batches |-> NonPad(log.batches[i])]))
    /\ Recorded(sen) = BatchAveraged(log.batches, "sent_acc")
    /\ Recorded(w) = BatchAveraged(log.batches, "wer")

UnequalSizes(bs) == \E i, j \in DOMAIN bs : Len(bs[i].truth) # Len(bs[j].truth)

\* C19 as stated: the recorded symbol accuracy is total correct over total
\* non-pad symbols, the recorded word error rate and sentence accuracy are
\* the plain means of the per-batch values, and whenever the batches of a
\* pass are of unequal size the batch-averaged value differs from the
\* sample-weighted one.
C19_AveragesAlwaysDiverge ==
    /\ pc = "valid" =>
          RecordedAggregates("train_symbol_accuracy", "train_sentence_accuracy", "train_wer")
    /\ pc = "save_cond" =>
          RecordedAggregates("validation_symbol_accuracy",
                             "validation_sentence_accuracy", "validation_wer")
    /\ (pc \in {"valid", "save_cond"} /\ UnequalSizes(log.batches)) =>
          \A f \in {"wer", "sent_acc"} :
             BatchAveraged(log.batches, f) # SampleWeighted(log.batches, f)

\* C19 amended: the recorded values are aggregated as stated; for batches
\* of unequal size the two averages can differ: over two batches of unequal
\* size they differ exactly when the two per-batch values differ, and they
\* coincide whenever all per-batch values are equal.
C19_AveragingStrategies ==
    /\ pc = "valid" =>
          RecordedAggregates("train_symbol_accuracy", "train_sentence_accuracy", "train_wer")
    /\ pc = "save_cond" =>
          RecordedAggregates("validation_symbol_accuracy",
                             "validation_sentence_accuracy", "validation_wer")
    /\ pc \in {"valid", "save_cond"} =>
          \A f \in {"wer", "sent_acc"} :
             /\ (Len(log.batches) = 2 /\ UnequalSizes(log.batches)) =>
                   (BatchAveraged(log.batches, f) # SampleWeighted(log.batches, f)
                      <=> log.batches[1][f] # log.batches[2][f])
             /\ (\A i, j \in DOMAIN log.batches : log.batches[i][f] = log.batches[j][f]) =>
                   BatchAveraged(log.batches, f) = SampleWeighted(log.batches, f)

\* a train pass over a batch of two examples and a batch of one with
\* different sentence accuracies: the recorded mean is not the
\* sample-weighted one
C19_Witness ==
    /\ pc = "valid"
    /\ Len(log.batches) = 2
    /\ UnequalSizes(log.batches)
    /\ Recorded("train_sentence_accuracy") = BatchAveraged(log.batches, "sent_acc")
    /\ Recorded("train_sentence_accuracy") # SampleWeighted(log.batches, "sent_acc")
    /\ Recorded("train_symbol_accuracy") # <<1, 1>>

HasSentinel(t) == \E i \in DOMAIN t : \E j \in DOMAIN t[i] : t[i][j] = -1

\* the positions of a batch at which the target is handed to the model and
\* the criterion, or has been and is not yet restored
ModelCallPcs == {"t_forward", "t_backward", "t_unscale", "t_clip", "t_step", "t_update",
                 "t_metrics", "v_forward", "v_metrics"}

\* C20: in every batch of a train or validation pass the target handed to
\* the model and the criterion contains no -1, every -1 of the loader's
\* tensor being the pad id there; the pad id becomes -1 again only after the
\* loss of the batch has been computed, and before the batch's word error
\* rate, sentence accuracy and symbol counts.
C20_NoSentinelInModelInput ==
    /\ pc \in ModelCallPcs =>
          /\ ~HasSentinel(expected)
          /\ \A i \in DOMAIN expected : \A j \in DOMAIN expected[i] :
                expected[i][j] = IF d.truth[i][j] = -1 THEN PadId ELSE d.truth[i][j]
    /\ HasSentinel(expected) =>
          /\ pc \notin ModelCallPcs
          /\ "loss" \in DOMAIN d
    /\ (pc = "t_sched" \/ (pc \in {"t_fetch", "v_fetch"} /\ b > 0)) =>
          /\ expected = d.truth
          /\ acc.total_symbols = Sum([i \in DOMAIN log.batches |-> NonPad(log.batches[i])])
          /\ acc.correct_symbols = Sum([i \in DOMAIN log.batches |-> Correct(log.batches[i])])

\* a validation batch with padding has been through the model and the
\* criterion with the pad id in place of -1
C20_Witness ==
    /\ pc = "v_metrics"
    /\ HasSentinel(d.truth)
    /\ ~HasSentinel(expected)
    /\ "loss" \in DOMAIN d

\* C21: for each scheduler choice of the enumerated set (cyclical,
\* cosine-warm-up-restart, plateau, step, none; a name main has no branch
\* for stands for none) the setup in main completes without error and the
\* run reaches the train pass of the first epoch with a usable schedule.
C21_EverySchedulerSetsUp ==
    /\ err \notin {"setup", "unbound"}
    /\ pc \in {"log", "init", "train"} \cup TrainPcs => lr_scheduler.bound

\* C22: every checkpoint written by main carries every component of the
\* training state, the active scheduler's name and configuration included,
\* and a run resumed from it continues the schedule from the saved position
\* instead of from step 0.
C22_CheckpointCarriesScheduler ==
    /\ disk.file.kind = "ckpt" =>
          /\ DOMAIN DefaultCheckpoint \subseteq DOMAIN Unpickle(disk.file.bytes)
          /\ Unpickle(disk.file.bytes).scheduler_name = Unpickle(disk.file.bytes).configs.scheduler
    /\ (options.checkpoint # "" /\ pc = "train" /\ epoch = 0 /\ lr_scheduler.bound) =>
          GetLr(lr_scheduler) = last_save.lr

\* the validation composite score of the last epoch recorded in a dict
StoredScore(c) ==
    CompositeScore(c.validation_sentence_accuracy[Len(c.validation_sentence_accuracy)],
                   c.validation_wer[Len(c.validation_wer)])

\* the first position of the largest element of a non-empty sequence of scores
EarliestBest(s) == CHOOSE i \in DOMAIN s : s[i] = MaxRat(s) /\ \A j \in 1..(i - 1) : s[j] # s[i]

\* outside the statements of lines 579-601, where the file is written before
\* best_sentence_acc is assigned
OutsideSave == pc \notin {"save", "save_write", "best"}

BestMatchesFile ==
    /\ log.saves = <<>> => best_sentence_acc = <<0, 1>>
    /\ (log.saves # <<>> /\ OutsideSave) =>
          /\ disk.file.kind = "ckpt"
          /\ best_sentence_acc = StoredScore(Unpickle(disk.file.bytes))
          /\ best_sentence_acc = MaxRat(log.scores)
          /\ Unpickle(disk.file.bytes).epoch = start_epoch + EarliestBest(log.scores)
          /\ log.saves[Len(log.saves)] = EarliestBest(log.scores) - 1

InUnit(x) == 0 <= x[1] /\ x[1] <= x[2]

\* correct_symbols and total_symbols of an accumulator or of a pass result
Counted(r) == 0 <= r.correct_symbols /\ r.correct_symbols <= r.total_symbols

\* the batch has a padded position at which the model predicts the pad id
PredictsPad(bt) ==
    \E i \in DOMAIN bt.sequence : \E j \in DOMAIN bt.sequence[i] :
        bt.truth[i][j + 1] = -1 /\ bt.sequence[i][j] = PadId

\* C24: after every batch of a train or validation pass
\* 0 <= correct_symbols <= total_symbols, a position whose reference is the
\* restored pad sentinel -1 never being counted as correct; hence every
\* symbol accuracy appended to a history lies in [0, 1].
C24_SymbolCountsBounded ==
    /\ Counted(acc)
    /\ train_result.bound => Counted(train_result)
    /\ validation_result.bound => Counted(validation_result)
    /\ (pc = "t_sched" \/ (pc \in {"t_fetch", "v_fetch"} /\ b > 0)) =>
          \A i \in DOMAIN d.sequence : \A j \in DOMAIN d.sequence[i] :
              expected[i][j + 1] = -1 => d.sequence[i][j] # expected[i][j + 1]
    /\ "train_symbol_accuracy" \in DOMAIN checkpoint =>
          /\ \A i \in DOMAIN checkpoint.train_symbol_accuracy :
                InUnit(checkpoint.train_symbol_accuracy[i])
          /\ \A i \in DOMAIN checkpoint.validation_symbol_accuracy :
                InUnit(checkpoint.validation_symbol_accuracy[i])

\* a train pass over a batch whose padded position the model fills with the
\* pad id has been folded into the history
C24_Witness ==
    /\ pc = "valid"
    /\ "train_symbol_accuracy" \in DOMAIN checkpoint
    /\ checkpoint.train_symbol_accuracy # <<>>
    /\ \E bt \in Range(log.batches) : PredictsPad(bt)
    /\ 0 < train_result.correct_symbols
    /\ train_result.correct_symbols < train_result.total_symbols

\* C25: a run of main started without a checkpoint path leaves the
\* module-level default_checkpoint unchanged, epoch 0 and every history
\* sequence still empty, so that a second run in the same process without a
\* checkpoint path would again start from empty histories.
C25_DefaultCheckpointUnchanged ==
    options.checkpoint = "" =>
       /\ default_checkpoint = DefaultCheckpoint
       /\ default_checkpoint.epoch = 0
       /\ \A h \in HistoryNames : default_checkpoint[h] = <<>>

====
